---- MODULE Spec2Model ----
(***************************************************************************)
(* Model of the energy data pipeline: energy_models.py (class EnergySheet: *)
(* load, clean, summarise, cache) and process_energy_data.py               *)
(* (process_excel_files: the run over the input workbooks and the pivot).  *)
(*                                                                         *)
(* Text.  A Python str is a sequence of glyphs; each glyph is one TLA+     *)
(* string.  The Chinese literals of the source are written in pinyin:      *)
(*   NengYuanLeiXing = energy type column   ShiJiXiaoHao = consumption     *)
(*   FeiYong(Yuan)   = cost column          BiaoHao      = meter number    *)
(*   RiQiQuJian      = period column        LaiYuanWenJian = source file   *)
(*   ZongFeiYong(Yuan) = total cost column                                 *)
(*   Dian, CaiNuanReBiao, ShengHuoReShuiBiao, ZiLaiShui, ZhongShui, RanQi  *)
(*   = the six TARGET_TYPES;  QiTa = a label outside TARGET_TYPES.         *)
(* A word written in pinyin is one glyph of the model (it has no blank     *)
(* inside and is alphanumeric), ordered by the code point of its first     *)
(* character.                                                              *)
(*                                                                         *)
(* pandas semantics are those of pandas 1.x/2.x with pyarrow, the versions *)
(* the repository was written against: Series.astype(str) turns a missing  *)
(* cell into the text "nan".                                               *)
(*                                                                         *)
(* Numbers.  Consumption and cost are floats; the model counts them in     *)
(* whole units and keeps MantissaBits significant bits (a float64 keeps    *)
(* 53), so that a sum is exact while it is small and rounded to the        *)
(* nearest float beyond that.                                              *)
(*                                                                         *)
(* Specifications.  SpecSheet: the construction of one EnergySheet from    *)
(* every sheet of up to MaxRows rows.  Spec: runs of process_excel_files   *)
(* over one or two workbooks, one after another on the same cache.         *)
(* SpecOrder: one run over three workbooks listed in every order.          *)
(***************************************************************************)
EXTENDS Naturals, Integers, Sequences, FiniteSets, TLC

VARIABLES
    pc,                 \* position of process_excel_files: idle, loop, done, raised
    files,              \* the files of the run still to be opened (line 67)
    file_name,          \* the file of the current loop iteration (line 77)
    sheet_names,        \* xls.sheet_names still to be processed (line 83)
    excel,              \* what pd.read_excel answered for the sheet last read
    sheet_obj,          \* the EnergySheet last constructed (line 87)
    comparison_result,  \* line 91
    summary_data,       \* line 65
    pivot_df,           \* the Aggregate Table (line 120-155)
    cache,              \* the cache directory: path -> file content
    cache_dir,          \* state of the cache directory itself: ok or blocked
    cache_owner,        \* history: path -> the (file, sheet) whose save_data wrote it
    read_log,           \* history: the sheets read so far in this run, and how each save_data ended
    nreads              \* number of sheets read since Init (bounded by MaxReads)

vars == <<pc, files, file_name, sheet_names, excel, sheet_obj, comparison_result,
          summary_data, pivot_df, cache, cache_dir, cache_owner, read_log, nreads>>

-----------------------------------------------------------------------------
(* Bounds of the model *)

MaxRows == 3
MaxReads == 3

\* Width of the significand of a float (53 in a float64): integers below
\* 2^MantissaBits are exact, larger ones are rounded to MantissaBits bits
MantissaBits == 6

-----------------------------------------------------------------------------
(* Generic helpers *)

Range(s) == {s[i] : i \in DOMAIN s}

RECURSIVE SumOver(_, _)
SumOver(S, f) ==
    IF S = {} THEN 0
    ELSE LET i == CHOOSE x \in S : TRUE IN f[i] + SumOver(S \ {i}, f)

SeqsUpTo(S, n) == UNION {[1..k -> S] : k \in 0..n}

\* A function over 1..n as the sequence of its values
AsSeq(f) == SubSeq(f, 1, Len(f))

-----------------------------------------------------------------------------
(* Numbers: a float holds MantissaBits significant bits *)

RECURSIVE Pow2(_)
Pow2(n) == IF n = 0 THEN 1 ELSE 2 * Pow2(n - 1)

\* The spacing of the floats around the magnitude m
RECURSIVE Quantum(_)
Quantum(m) == IF m < Pow2(MantissaBits) THEN 1 ELSE 2 * Quantum(m \div 2)

\* The float nearest to the number x, ties to the even significand
RoundFloat(x) ==
    LET m == IF x < 0 THEN 0 - x ELSE x
        q == Quantum(m)
        down == m - (m % q)
        nearest == IF 2 * (m % q) < q THEN down
                   ELSE IF 2 * (m % q) > q THEN down + q
                   ELSE IF (down \div q) % 2 = 0 THEN down ELSE down + q
    IN IF x < 0 THEN 0 - nearest ELSE nearest

\* The sum of floats as groupby's sum accumulates it: row after row, with a
\* compensation term (Kahan summation), every operation rounded
RECURSIVE GroupSumFloat(_, _, _)
GroupSumFloat(vals, sumx, compensation) ==
    IF vals = <<>> THEN sumx
    ELSE LET y == RoundFloat(Head(vals) - compensation)
             t == RoundFloat(sumx + y)
         IN GroupSumFloat(Tail(vals), t, RoundFloat(RoundFloat(t - sumx) - y))

-----------------------------------------------------------------------------
(* Text: code points, comparison, str.isalnum, str.strip, str(int) *)

\* ord() of the first character of each glyph of the model
CodePoints ==
    " " :> 32
    @@ "+" :> 43
    @@ "-" :> 45
    @@ "." :> 46
    @@ "0" :> 48
    @@ "1" :> 49
    @@ "2" :> 50
    @@ "3" :> 51
    @@ "4" :> 52
    @@ "5" :> 53
    @@ "6" :> 54
    @@ "7" :> 55
    @@ "8" :> 56
    @@ "9" :> 57
    @@ "_" :> 95
    @@ "a" :> 97
    @@ "b" :> 98
    @@ "nan" :> 110
    @@ "parquet" :> 112
    @@ "xlsx" :> 120
    @@ "~$" :> 126
    @@ "ZhongShui" :> 20013
    @@ "QiTa" :> 20854
    @@ "RanQi" :> 29123
    @@ "ShengHuoReShuiBiao" :> 29983
    @@ "Dian" :> 30005
    @@ "ZiLaiShui" :> 33258
    @@ "FeiYong(Yuan)" :> 36153
    @@ "CaiNuanReBiao" :> 37319

CodePoint(g) == CodePoints[g]

\* Python's comparison of two str values (lexicographic by code point).
RECURSIVE StrLeq(_, _)
StrLeq(a, b) ==
    IF a = <<>> THEN TRUE
    ELSE IF b = <<>> THEN FALSE
    ELSE IF CodePoint(Head(a)) < CodePoint(Head(b)) THEN TRUE
    ELSE IF CodePoint(Head(a)) > CodePoint(Head(b)) THEN FALSE
    ELSE StrLeq(Tail(a), Tail(b))

RECURSIVE SortStrs(_)
SortStrs(S) ==
    IF S = {} THEN <<>>
    ELSE LET m == CHOOSE x \in S : \A y \in S : StrLeq(x, y)
         IN <<m>> \o SortStrs(S \ {m})

IsAlnum(g) == g \notin {" ", "+", "-", ".", "_", "~$"}

IsSpace(g) == g = " "

RECURSIVE LStrip(_)
LStrip(s) == IF s # <<>> /\ IsSpace(Head(s)) THEN LStrip(Tail(s)) ELSE s

RECURSIVE RStrip(_)
RStrip(s) ==
    IF s # <<>> /\ IsSpace(s[Len(s)]) THEN RStrip(SubSeq(s, 1, Len(s) - 1)) ELSE s

Strip(s) == RStrip(LStrip(s))

Digits == <<"0", "1", "2", "3", "4", "5", "6", "7", "8", "9">>

RECURSIVE IntToStr(_)
IntToStr(n) ==
    IF n < 10 THEN <<Digits[n + 1]>>
    ELSE IntToStr(n \div 10) \o <<Digits[(n % 10) + 1]>>

-----------------------------------------------------------------------------
(* Cells and data frames *)

NaN == [t |-> "nan", s |-> <<>>, n |-> 0]
Str(x) == [t |-> "str", s |-> x, n |-> 0]
Num(k) == [t |-> "int", s |-> <<>>, n |-> k]

IsNa(c) == c.t = "nan"

None == [none |-> TRUE, columns |-> <<>>, rows |-> <<>>]
DataFrame(cols, rws) == [none |-> FALSE, columns |-> cols, rows |-> rws]

HasColumn(df, col) == col \in Range(df.columns)

Column(df, col) == AsSeq([i \in DOMAIN df.rows |-> df.rows[i][col]])

\* df[col] = values
SetColumn(df, col, values) ==
    [df EXCEPT !.rows =
        AsSeq([i \in DOMAIN df.rows |-> [df.rows[i] EXCEPT ![col] = values[i]]])]

\* Series.bfill(): fills upward instead (the mutation of Ffill).
RECURSIVE Bfill(_)
Bfill(col) ==
    IF Len(col) <= 1 THEN col
    ELSE LET tail == Bfill(Tail(col))
         IN <<IF IsNa(col[1]) THEN tail[1] ELSE col[1]>> \o tail

\* Series.ffill(): a missing cell takes the last valid cell above it.
RECURSIVE Ffill(_)
Ffill(col) ==
    IF Len(col) <= 1 THEN col
    ELSE LET n == Len(col)
             head == Ffill(SubSeq(col, 1, n - 1))
         IN Append(head, IF IsNa(col[n]) THEN head[n - 1] ELSE col[n])

\* Series.astype(str), element-wise str(x): str(nan) is the text "nan".
AstypeStr(c) ==
    CASE c.t = "nan" -> Str(<<"nan">>)
      [] c.t = "int" -> Str(IntToStr(c.n))
      [] OTHER -> c

\* Series.str.strip() on a column of str
StrStrip(c) == IF c.t = "str" THEN Str(Strip(c.s)) ELSE c

-----------------------------------------------------------------------------
(* class EnergySheet *)

COL_TYPE == "NengYuanLeiXing"
COL_USAGE == "ShiJiXiaoHao"
COL_COST == "FeiYong(Yuan)"
COL_METER == "BiaoHao"
COL_PERIOD == "RiQiQuJian"
COL_SOURCE == "LaiYuanWenJian"

TARGET_TYPES ==
    << <<"Dian">>, <<"CaiNuanReBiao">>, <<"ShengHuoReShuiBiao">>,
       <<"ZiLaiShui">>, <<"ZhongShui">>, <<"RanQi">> >>

REQUIRED_COLS == <<COL_TYPE, COL_USAGE, COL_COST>>

TargetTypeSet == Range(TARGET_TYPES)

\* os.path.basename of a path input_dir/<file>: the file's name
NewSheet(file, sheet) ==
    [file_name |-> file, sheet_name |-> sheet,
     raw_df |-> None, processed_df |-> None, summary_df |-> None]

NoSheet == NewSheet(<<>>, <<>>)

\* df.copy(): a new frame object "df" beside the object "raw"
DfCopyAlias(ref) == ref
DfCopy(ref) == "df"

\* The target types present in df, in groupby's sorted key order
GroupKeys(df) ==
    SortStrs({t \in TargetTypeSet :
                \E i \in DOMAIN df.rows : df.rows[i][COL_TYPE] = Str(t)})

\* Lines 109-110: the sum of a column over the rows of a type, in row order
GroupSum(df, t, col) ==
    LET rows == SelectSeq(df.rows, LAMBDA r : r[COL_TYPE] = Str(t))
    IN GroupSumFloat([k \in DOMAIN rows |-> rows[k][col].n], 0, 0)

GenerateSummaryNoFilter(self) ==
    IF self.processed_df.none THEN self
    ELSE LET df == self.processed_df
             keys == SortStrs({df.rows[i][COL_TYPE].s : i \in DOMAIN df.rows})
             grouped ==
                 AsSeq([k \in DOMAIN keys |->
                          (COL_TYPE :> Str(keys[k])
                           @@ COL_USAGE :> Num(GroupSum(df, keys[k], COL_USAGE))
                           @@ COL_COST :> Num(GroupSum(df, keys[k], COL_COST))
                           @@ COL_PERIOD :> Str(self.sheet_name)
                           @@ COL_SOURCE :> Str(self.file_name))])
         IN [self EXCEPT !.summary_df =
                DataFrame(<<COL_TYPE, COL_USAGE, COL_COST, COL_PERIOD, COL_SOURCE>>,
                          grouped)]

GenerateSummary(self) ==
    IF self.processed_df.none THEN self
    ELSE LET df == self.processed_df
             keys == GroupKeys(df)
             grouped ==
                 AsSeq([k \in DOMAIN keys |->
                          (COL_TYPE :> Str(keys[k])
                           @@ COL_USAGE :> Num(GroupSum(df, keys[k], COL_USAGE))
                           @@ COL_COST :> Num(GroupSum(df, keys[k], COL_COST))
                           @@ COL_PERIOD :> Str(self.sheet_name)
                           @@ COL_SOURCE :> Str(self.file_name))])
         IN [self EXCEPT !.summary_df =
                DataFrame(<<COL_TYPE, COL_USAGE, COL_COST, COL_PERIOD, COL_SOURCE>>,
                          grouped)]

\* What pd.read_excel answers: it raises, or it returns a frame.
ReadFails == [fail |-> TRUE, df |-> None]
ReadOk(df) == [fail |-> FALSE, df |-> df]

LoadAndProcess(self, content) ==
    IF content.fail THEN self
    ELSE LET raw == content.df
             s1 == [self EXCEPT !.raw_df = raw]
         IN IF ~ \A k \in DOMAIN REQUIRED_COLS : HasColumn(raw, REQUIRED_COLS[k])
            THEN s1
            ELSE LET ref == DfCopy("raw")
                     h0 == [raw |-> raw, df |-> raw]
                     h1 == [h0 EXCEPT ![ref] =
                              SetColumn(@, COL_TYPE, Ffill(Column(@, COL_TYPE)))]
                     h2 == [h1 EXCEPT ![ref] =
                              SetColumn(@, COL_TYPE,
                                  AsSeq([i \in DOMAIN @.rows |->
                                            StrStrip(AstypeStr(@.rows[i][COL_TYPE]))]))]
                     h3 == IF HasColumn(h2[ref], COL_METER)
                           THEN [h2 EXCEPT ![ref] =
                                   SetColumn(@, COL_METER,
                                       AsSeq([i \in DOMAIN @.rows |->
                                                 AstypeStr(@.rows[i][COL_METER])]))]
                           ELSE h2
                 IN GenerateSummary(
                        [s1 EXCEPT !.raw_df = h3["raw"], !.processed_df = h3[ref]])

\* EnergySheet(file_path, sheet_name)
EnergySheet(file, sheet, content) == LoadAndProcess(NewSheet(file, sheet), content)

-----------------------------------------------------------------------------
(* EnergySheet: the cache *)

\* os.path.splitext(name)[0]: the name up to its last dot (a leading dot is
\* no extension)
SplitExtBase(name) ==
    LET dots == {i \in DOMAIN name : name[i] = "." /\ i > 1}
    IN IF dots = {} THEN name
       ELSE SubSeq(name, 1, (CHOOSE i \in dots : \A j \in dots : j <= i) - 1)

SafeChar(c) == IsAlnum(c) \/ c \in {" ", ".", "-", "_"}

\* The cache file's name inside output_dir
GetCachePath(self, format) ==
    SplitExtBase(self.file_name) \o <<"_">>
        \o Strip(SelectSeq(self.sheet_name, SafeChar)) \o <<".", format>>

\* A file of the cache directory: a parquet file holding a table, or bytes
\* that are no parquet file.
ParquetFile(df) == [kind |-> "parquet", table |-> df]
CorruptFile == [kind |-> "corrupt", table |-> None]

\* DataFrame.to_parquet(path, index=False), pd.read_parquet(path)
ToParquet(df) == ParquetFile(DataFrame(df.columns, df.rows))
ReadParquet(file) == file.table

\* pd.testing.assert_frame_equal(left, right, check_dtype=False) passes
FrameEqual(left, right) ==
    /\ left.columns = right.columns
    /\ Len(left.rows) = Len(right.rows)
    /\ \A i \in DOMAIN left.rows : left.rows[i] = right.rows[i]

\* The mutation of CompareWithCache that takes an unreadable file for a
\* changed one.
CompareWithCacheErrorAsMismatch(self, fs, format) ==
    IF self.processed_df.none THEN "ERROR"
    ELSE LET cache_path == GetCachePath(self, format)
         IN IF cache_path \notin DOMAIN fs THEN "NEW"
            ELSE IF fs[cache_path].kind # "parquet" THEN "MISMATCH"
            ELSE IF FrameEqual(self.processed_df, ReadParquet(fs[cache_path]))
                 THEN "MATCH"
                 ELSE "MISMATCH"

\* sheet.compare_with_cache(output_dir, format); fs is the cache directory.
\* The run only ever passes format = "parquet": the csv branch is not modelled.
CompareWithCache(self, fs, format) ==
    IF self.processed_df.none THEN "ERROR"
    ELSE LET cache_path == GetCachePath(self, format)
         IN IF cache_path \notin DOMAIN fs THEN "NEW"
            ELSE IF fs[cache_path].kind # "parquet" THEN "ERROR"
            ELSE IF FrameEqual(self.processed_df, ReadParquet(fs[cache_path]))
                 THEN "MATCH"
                 ELSE "MISMATCH"

\* sheet.save_data(output_dir, format).  dir is the state of output_dir ("ok":
\* it exists or can be made, "blocked": os.makedirs raises); wr says whether
\* to_parquet succeeds.  The answer is how the call ended ("none": nothing to
\* save, "ok", "failed": to_parquet raised and was caught, "raised":
\* os.makedirs raised and the exception left save_data) and the directory after.
SaveData(self, fs, dir, wr, format) ==
    IF self.processed_df.none THEN [ended |-> "none", fs |-> fs]
    ELSE IF dir # "ok" THEN [ended |-> "raised", fs |-> fs]
    ELSE IF wr # "ok" THEN [ended |-> "failed", fs |-> fs]
    ELSE [ended |-> "ok",
          fs |-> [p \in DOMAIN fs \cup {GetCachePath(self, format)} |->
                    IF p = GetCachePath(self, format)
                    THEN ToParquet(self.processed_df) ELSE fs[p]]]

-----------------------------------------------------------------------------
(* Sheets as pd.read_excel returns them: the inputs of the model *)

Costs == {1, 2}
Usages == {10, 20}

\* The category cells of a sheet: a blank (merged) cell, a recognized label,
\* a recognized label with blanks around it, a label outside TARGET_TYPES.
CatCells == {NaN, Str(<<"Dian">>), Str(<<" ", "ZiLaiShui", " ">>), Str(<<"QiTa">>)}

\* The meter-number cells of a sheet that has the column: a number, a blank,
\* a text with a leading zero.
MeterCell(i) ==
    IF i = 1 THEN Num(7) ELSE IF i = 2 THEN NaN ELSE Str(<<"0", "7">>)

RawRow(type, usage, cost) ==
    COL_TYPE :> type @@ COL_USAGE :> Num(usage) @@ COL_COST :> Num(cost)

RawRows == {RawRow(c, u, k) : c \in CatCells, u \in Usages, k \in Costs}

\* The layouts of a sheet: the three required columns; those and a meter
\* column; the cost column missing.
Layouts == {"plain", "meter", "nocost"}

Sheet(layout, rws) ==
    CASE layout = "plain" ->
            DataFrame(<<COL_TYPE, COL_USAGE, COL_COST>>, rws)
      [] layout = "meter" ->
            DataFrame(<<COL_METER, COL_TYPE, COL_USAGE, COL_COST>>,
                      [i \in DOMAIN rws |-> rws[i] @@ COL_METER :> MeterCell(i)])
      [] OTHER ->
            DataFrame(<<COL_TYPE, COL_USAGE>>,
                      [i \in DOMAIN rws |->
                          COL_TYPE :> rws[i][COL_TYPE] @@ COL_USAGE :> rws[i][COL_USAGE]])

SheetContents ==
    {ReadFails} \cup
    {ReadOk(Sheet(l, r)) : l \in Layouts, r \in SeqsUpTo(RawRows, MaxRows)}

FILE_A == <<"a", ".", "xlsx">>
FILE_B == <<"b", ".", "xlsx">>
FILE_C == <<"c", ".", "xlsx">>

PERIOD_1 == <<"1">>
PERIOD_2 == <<"2">>
PERIOD_1X == <<"1", "+">>

-----------------------------------------------------------------------------
(* The state of process_excel_files before a run *)

NoCache == [p \in {} |-> None]

IdleState ==
    /\ files = <<>>
    /\ file_name = <<>>
    /\ sheet_names = <<>>
    /\ excel = ReadFails
    /\ sheet_obj = NoSheet
    /\ comparison_result = "none"
    /\ summary_data = <<>>
    /\ pivot_df = None
    /\ cache = NoCache
    /\ cache_owner = NoCache
    /\ read_log = <<>>
    /\ nreads = 0

-----------------------------------------------------------------------------
(* Specification of one EnergySheet: construction from a sheet read *)

InitSheet ==
    /\ pc = "new"
    /\ files = <<>>
    /\ \E f \in {FILE_A} : file_name = f
    /\ \E n \in {PERIOD_1} : sheet_names = <<n>>
    /\ excel \in SheetContents
    /\ sheet_obj = NoSheet
    /\ comparison_result = "none"
    /\ summary_data = <<>>
    /\ pivot_df = None
    /\ cache = NoCache
    /\ cache_dir = "ok"
    /\ cache_owner = NoCache
    /\ read_log = <<>>
    /\ nreads = 0

\* sheet_obj = EnergySheet(file_path, sheet_name)
Construct ==
    /\ pc = "new"
    /\ sheet_obj' = EnergySheet(file_name, Head(sheet_names), excel)
    /\ pc' = "constructed"
    /\ UNCHANGED <<files, file_name, sheet_names, excel, comparison_result,
                   summary_data, pivot_df, cache, cache_dir, cache_owner, read_log,
                   nreads>>

NextSheet == Construct

SpecSheet == InitSheet /\ [][NextSheet]_vars

-----------------------------------------------------------------------------
(* process_excel_files: the pivot (lines 116-155) *)

COL_TOTAL == "ZongFeiYong(Yuan)"

\* pd.concat(summary_data, ignore_index=True): the rows of all summaries
RECURSIVE Concat(_)
Concat(frames) ==
    IF frames = <<>> THEN <<>> ELSE Head(frames).rows \o Concat(Tail(frames))

\* f"{energy_type}_{value}": the flattened name of a pivot column
CostColumn(type) == type \o <<"_", COL_COST>>

EndsWith(name, suffix) ==
    /\ Len(name) >= Len(suffix)
    /\ SubSeq(name, Len(name) - Len(suffix) + 1, Len(name)) = suffix

\* aggfunc "last" instead of "sum" (the mutation of AggSum)
AggLast(long, period, type) ==
    LET idx == {i \in DOMAIN long :
                  long[i][COL_PERIOD] = Str(period) /\ long[i][COL_TYPE] = Str(type)}
    IN IF idx = {} THEN 0 ELSE long[CHOOSE i \in idx : \A j \in idx : j <= i][COL_COST].n

\* aggfunc="sum", fill_value=0: the cell of a period and an energy type, summed
\* over the rows of final_df in their order
AggSum(long, period, type) ==
    LET rows == SelectSeq(long, LAMBDA r : r[COL_PERIOD] = Str(period)
                                             /\ r[COL_TYPE] = Str(type))
    IN GroupSumFloat([k \in DOMAIN rows |-> rows[k][COL_COST].n], 0, 0)

\* The columns left as pivot_table and sort_index give them (the mutation of
\* OrderedColumns)
ColumnsAsPivoted(pivot_columns) == pivot_columns

\* The columns of the pivot in their final order (lines 138-149)
OrderedColumns(pivot_columns) ==
    LET target == SelectSeq([k \in DOMAIN TARGET_TYPES |-> CostColumn(TARGET_TYPES[k])],
                            LAMBDA c : c \in Range(pivot_columns))
        ordered == <<<<COL_PERIOD>>>> \o target
    IN ordered \o SelectSeq(pivot_columns, LAMBDA c : c \notin Range(ordered))

\* Line 154: the columns that enter the total
CostCols(columns) == SelectSeq(columns, LAMBDA c : EndsWith(c, <<"_", COL_COST>>))

\* The first of the columns alone (the mutation of SumAxis1)
FirstOfAxis1(cells, cols) == cells[cols[1]]

\* Line 155: sum(axis=1), the cells of one row added column after column,
\* every addition rounded
RECURSIVE SumAxis1(_, _)
SumAxis1(cells, cols) ==
    IF cols = <<>> THEN 0
    ELSE RoundFloat(SumAxis1(cells, SubSeq(cols, 1, Len(cols) - 1))
                       + cells[cols[Len(cols)]])

\* Lines 117-155 for a final_df that has rows
Pivot(long) ==
    LET periods == SortStrs({long[i][COL_PERIOD].s : i \in DOMAIN long})
        types == SortStrs({long[i][COL_TYPE].s : i \in DOMAIN long})
        flat == <<<<COL_PERIOD>>>> \o [k \in DOMAIN types |-> CostColumn(types[k])]
        ordered == OrderedColumns(flat)
        cost_cols == CostCols(ordered)
        cells(p) == [c \in Range(cost_cols) |-> AggSum(long, p, SubSeq(c, 1, Len(c) - 2))]
    IN DataFrame(Append(ordered, <<COL_TOTAL>>),
                 [r \in DOMAIN periods |->
                    LET row == cells(periods[r])
                    IN [c \in Range(ordered) \cup {<<COL_TOTAL>>} |->
                          IF c = <<COL_PERIOD>> THEN Str(periods[r])
                          ELSE IF c = <<COL_TOTAL>> THEN Num(SumAxis1(row, cost_cols))
                          ELSE Num(row[c])]])

\* The pivot of a final_df without rows, where pivot_table does not raise
EmptyPivot == DataFrame(<<<<COL_PERIOD>>, <<COL_TOTAL>>>>, <<>>)

-----------------------------------------------------------------------------
(* process_excel_files: the inputs of a run *)

LOCK_A == <<"~$", "a", ".", "xlsx">>
NOTES == <<"a", ".", "b">>

\* os.listdir(input_dir): the directory's entries, in the order it gives them
Listings ==
    { <<LOCK_A, NOTES>>, <<FILE_A, LOCK_A>>,
      <<FILE_A, NOTES, FILE_B>>, <<FILE_B, FILE_A>> }

StartsWith(name, prefix) ==
    Len(name) >= Len(prefix) /\ SubSeq(name, 1, Len(prefix)) = prefix

\* Lines 67-71
IsInputFile(f) == EndsWith(f, <<".", "xlsx">>) /\ ~ StartsWith(f, <<"~$">>)

\* xls.sheet_names of a workbook that opens
SheetNameLists == { <<PERIOD_1>>, <<PERIOD_1, PERIOD_2>>, <<PERIOD_1, PERIOD_1X>> }

\* Four metered rows of three categories with a merged category cell; the same
\* with one cost changed; a sheet of an unrecognized category; a sheet without
\* the cost column
SHEET_GOOD ==
    Sheet("meter", << RawRow(Str(<<"Dian">>), 10, 1),
                      RawRow(NaN, 20, 2),
                      RawRow(Str(<<" ", "ZiLaiShui", " ">>), 10, 4),
                      RawRow(Str(<<"ZhongShui">>), 20, 2) >>)
SHEET_CHANGED ==
    Sheet("meter", << RawRow(Str(<<"Dian">>), 10, 1),
                      RawRow(NaN, 20, 8),
                      RawRow(Str(<<" ", "ZiLaiShui", " ">>), 10, 4),
                      RawRow(Str(<<"ZhongShui">>), 20, 2) >>)
SHEET_OTHER == Sheet("plain", << RawRow(Str(<<"QiTa">>), 10, 16) >>)
SHEET_NOCOST == Sheet("nocost", << RawRow(Str(<<"Dian">>), 10, 1) >>)

\* A sheet with a cost that fills the significand of a float: adding a small
\* cost to it is rounded
SHEET_LARGE == Sheet("plain", << RawRow(Str(<<"Dian">>), 10, Pow2(MantissaBits) + 4) >>)

\* The sheets a run can read, by name
RunContents == {"fails", "good", "changed", "other", "nocost"}

\* What pd.read_excel answers for each of them
ReadExcel(name) ==
    CASE name = "good" -> ReadOk(SHEET_GOOD)
      [] name = "changed" -> ReadOk(SHEET_CHANGED)
      [] name = "other" -> ReadOk(SHEET_OTHER)
      [] name = "nocost" -> ReadOk(SHEET_NOCOST)
      [] name = "large" -> ReadOk(SHEET_LARGE)
      [] OTHER -> ReadFails

-----------------------------------------------------------------------------
(* process_excel_files *)

\* No run has been made: the cache directory is empty, and it can be made or
\* something blocks it (a file of its name, a parent that cannot be written)
Init ==
    /\ IdleState
    /\ pc = "idle"
    /\ cache_dir \in {"ok", "blocked"}

\* Lines 91-97: format="parquet"
CACHE_FORMAT == "parquet"

\* Line 95: the cache is written for a NEW sheet only
ShouldSaveUnlessMatch(result) == result # "MATCH"
ShouldSave(result) == result = "NEW"

\* Lines 50-75: a run starts and lists the input directory; without input
\* files it returns at once
StartRunFrom(listings) ==
    /\ pc = "idle"
    /\ nreads < MaxReads
    /\ \E listing \in listings :
          /\ files' = SelectSeq(listing, IsInputFile)
          /\ pc' = IF files' = <<>> THEN "done" ELSE "loop"
    /\ UNCHANGED <<file_name, sheet_names, excel, sheet_obj, comparison_result,
                   summary_data, pivot_df, cache, cache_dir, cache_owner, read_log,
                   nreads>>

StartRun == StartRunFrom(Listings)

LogEntry(file, sheet, content, ended) ==
    [file |-> file, sheet |-> sheet, content |-> content, save |-> ended]

\* Lines 77-82 and 113-114: the next file is opened; pd.ExcelFile raises (the
\* file is logged and left) or gives the workbook's sheet names
OpenFile ==
    /\ pc = "loop"
    /\ sheet_names = <<>>
    /\ files # <<>>
    /\ file_name' = Head(files)
    /\ files' = Tail(files)
    /\ \/ /\ sheet_names' = <<>>
          /\ read_log' = Append(read_log, LogEntry(Head(files), <<>>, "fails", "none"))
       \/ /\ sheet_names' \in SheetNameLists
          /\ read_log' = read_log
    /\ UNCHANGED <<pc, excel, sheet_obj, comparison_result, summary_data, pivot_df,
                   cache, cache_dir, cache_owner, nreads>>

\* Line 87, tabulated: EnergySheet(file_path, sheet_name) for every file, sheet
\* name and sheet content of a run
SheetTable ==
    {[file |-> f, sheet |-> n, content |-> c, obj |-> EnergySheet(f, n, ReadExcel(c))] :
        f \in {FILE_A, FILE_B, FILE_C},
        n \in {<<>>} \cup UNION {Range(l) : l \in SheetNameLists},
        c \in RunContents \cup {"large"}}

Constructed(f, n, c) ==
    (CHOOSE r \in SheetTable : r.file = f /\ r.sheet = n /\ r.content = c).obj

\* Lines 83-111 (and 113-114 when save_data raises): one sheet of the workbook.
\* content is what the sheet holds; wr is whether to_parquet succeeds, should
\* save_data reach it.
ProcessSheetFrom(contents) ==
    /\ pc = "loop"
    /\ sheet_names # <<>>
    /\ nreads < MaxReads
    /\ \E content \in contents :
         LET obj == Constructed(file_name, Head(sheet_names), content)
             result == CompareWithCache(obj, cache, CACHE_FORMAT)
             path == GetCachePath(obj, CACHE_FORMAT)
         IN \E wr \in IF ShouldSave(result) /\ cache_dir = "ok" /\ ~ obj.processed_df.none
                      THEN {"ok", "fails"} ELSE {"ok"} :
              LET saved == IF ShouldSave(result)
                           THEN SaveData(obj, cache, cache_dir, wr, CACHE_FORMAT)
                           ELSE [ended |-> "none", fs |-> cache]
              IN /\ excel' = ReadExcel(content)
                 /\ sheet_obj' = obj
                 /\ comparison_result' = result
                 /\ cache' = saved.fs
                 /\ cache_owner' =
                      IF saved.ended = "ok"
                      THEN [p \in DOMAIN cache_owner \cup {path} |->
                              IF p = path THEN <<obj.file_name, obj.sheet_name>>
                              ELSE cache_owner[p]]
                      ELSE cache_owner
                 /\ read_log' = Append(read_log,
                                       LogEntry(file_name, Head(sheet_names), content,
                                                saved.ended))
                 /\ IF saved.ended = "raised"
                    THEN /\ sheet_names' = <<>>
                         /\ summary_data' = summary_data
                    ELSE /\ sheet_names' = Tail(sheet_names)
                         /\ summary_data' =
                              IF obj.summary_df.none THEN summary_data
                              ELSE Append(summary_data, obj.summary_df)
    /\ nreads' = nreads + 1
    /\ UNCHANGED <<pc, files, file_name, pivot_df, cache_dir>>

ProcessSheet == ProcessSheetFrom(RunContents)

\* Lines 116-163: the files are done; the summaries are pivoted
Finish ==
    /\ pc = "loop"
    /\ sheet_names = <<>>
    /\ files = <<>>
    /\ \/ /\ summary_data = <<>>
          /\ pc' = "done"
          /\ pivot_df' = None
       \/ /\ summary_data # <<>>
          /\ Concat(summary_data) # <<>>
          /\ pc' = "done"
          /\ pivot_df' = Pivot(Concat(summary_data))
       \/ /\ summary_data # <<>>
          /\ Concat(summary_data) = <<>>
          /\ pc' = "done"
          /\ pivot_df' = EmptyPivot
       \/ /\ summary_data # <<>>
          /\ Concat(summary_data) = <<>>
          /\ pc' = "raised"
          /\ pivot_df' = None
    /\ UNCHANGED <<files, file_name, sheet_names, excel, sheet_obj, comparison_result,
                   summary_data, cache, cache_dir, cache_owner, read_log, nreads>>

\* process_excel_files has returned or raised: its locals are gone
Exit ==
    /\ pc \in {"done", "raised"}
    /\ pc' = "idle"
    /\ files' = <<>>
    /\ file_name' = <<>>
    /\ sheet_names' = <<>>
    /\ excel' = ReadFails
    /\ sheet_obj' = NoSheet
    /\ comparison_result' = "none"
    /\ summary_data' = <<>>
    /\ pivot_df' = None
    /\ read_log' = <<>>
    /\ UNCHANGED <<cache, cache_dir, cache_owner, nreads>>

\* Between runs a cache file is damaged (a truncated or overwritten file)
CorruptCacheFile ==
    /\ pc = "idle"
    /\ \E p \in DOMAIN cache :
         /\ cache[p].kind = "parquet"
         /\ cache' = [cache EXCEPT ![p] = CorruptFile]
    /\ UNCHANGED <<pc, files, file_name, sheet_names, excel, sheet_obj,
                   comparison_result, summary_data, pivot_df, cache_dir, cache_owner,
                   read_log, nreads>>

\* Between runs what blocks the cache directory is removed
UnblockCacheDir ==
    /\ pc = "idle"
    /\ cache_dir = "blocked"
    /\ cache_dir' = "ok"
    /\ UNCHANGED <<pc, files, file_name, sheet_names, excel, sheet_obj,
                   comparison_result, summary_data, pivot_df, cache, cache_owner,
                   read_log, nreads>>

Next ==
    \/ StartRun
    \/ OpenFile
    \/ ProcessSheet
    \/ Finish
    \/ Exit
    \/ CorruptCacheFile
    \/ UnblockCacheDir

Spec == Init /\ [][Next]_vars

-----------------------------------------------------------------------------
(* One run over three workbooks, listed in every order, from an empty cache *)

\* os.listdir(input_dir) of a directory of three workbooks
OrderListings ==
    { <<FILE_A, FILE_B, FILE_C>>, <<FILE_A, FILE_C, FILE_B>>,
      <<FILE_B, FILE_A, FILE_C>>, <<FILE_B, FILE_C, FILE_A>>,
      <<FILE_C, FILE_A, FILE_B>>, <<FILE_C, FILE_B, FILE_A>> }

\* The sheets such a run can read
OrderContents == {"good", "large", "other"}

InitOrder ==
    /\ IdleState
    /\ pc = "idle"
    /\ cache_dir = "ok"

StartRunOrder == StartRunFrom(OrderListings)

ProcessSheetOrder == ProcessSheetFrom(OrderContents)

NextOrder ==
    \/ StartRunOrder
    \/ OpenFile
    \/ ProcessSheetOrder
    \/ Finish

SpecOrder == InitOrder /\ [][NextOrder]_vars

-----------------------------------------------------------------------------
(* Claims about normalization and the sheet summary (SpecSheet) *)

Normalized == pc = "constructed" /\ ~ sheet_obj.processed_df.none

RawRowsRead == excel.df.rows
CleanRows == sheet_obj.processed_df.rows

\* The rows at or above row i whose category cell was not blank in the sheet read
FilledAbove(i) == {j \in 1..i : ~ IsNa(RawRowsRead[j][COL_TYPE])}

Maximum(S) == CHOOSE x \in S : \A y \in S : y <= x

\* C6: after normalization a row whose category cell was blank and that has a
\* non-blank category cell above it carries the (trimmed) category of the
\* nearest such row above, and a row whose category was not blank keeps its
\* own trimmed value.
C6_ForwardFill ==
    Normalized =>
        /\ Len(CleanRows) = Len(RawRowsRead)
        /\ \A i \in DOMAIN RawRowsRead :
             FilledAbove(i) # {} =>
                CleanRows[i][COL_TYPE] =
                    Str(Strip(RawRowsRead[Maximum(FilledAbove(i))][COL_TYPE].s))

C6_Witness ==
    /\ Normalized
    /\ Len(RawRowsRead) = 3
    /\ RawRowsRead[1][COL_TYPE] = Str(<<" ", "ZiLaiShui", " ">>)
    /\ IsNa(RawRowsRead[2][COL_TYPE])
    /\ IsNa(RawRowsRead[3][COL_TYPE])
    /\ CleanRows[3][COL_TYPE] = Str(<<"ZiLaiShui">>)

\* C7: a leading run of rows with a blank category and no non-blank category
\* above stays blank (missing) in the normalized table.
C7_LeadingRunStaysEmpty ==
    Normalized =>
        \A i \in DOMAIN RawRowsRead :
            FilledAbove(i) = {} => IsNa(CleanRows[i][COL_TYPE])

\* What the code does with a leading blank run: the text "nan".
C7_LeadingRunIsNanText ==
    Normalized =>
        \A i \in DOMAIN RawRowsRead :
            FilledAbove(i) = {} => CleanRows[i][COL_TYPE] = Str(<<"nan">>)

\* C8: normalization changes only the category column and the meter-number
\* column: same columns, same rows in the same order and number, every other
\* cell unchanged, and the raw table held by the sheet is the table read.
C8_NormalizationFrame ==
    Normalized =>
        /\ sheet_obj.processed_df.columns = excel.df.columns
        /\ Len(CleanRows) = Len(RawRowsRead)
        /\ \A i \in DOMAIN RawRowsRead :
             \A col \in Range(excel.df.columns) \ {COL_TYPE, COL_METER} :
                CleanRows[i][col] = RawRowsRead[i][col]
        /\ sheet_obj.raw_df = excel.df

C8_Witness ==
    /\ Normalized
    /\ Len(RawRowsRead) = 3
    /\ HasColumn(excel.df, COL_METER)
    /\ \A i \in 1..3 : CleanRows[i][COL_TYPE] # RawRowsRead[i][COL_TYPE]
    /\ CleanRows[1][COL_METER] # RawRowsRead[1][COL_METER]

Summarized == pc = "constructed" /\ ~ sheet_obj.summary_df.none

SummaryRows == sheet_obj.summary_df.rows

RowsOfType(t) == {i \in DOMAIN CleanRows : CleanRows[i][COL_TYPE] = Str(t)}

SummaryRowsOfType(t) == {k \in DOMAIN SummaryRows : SummaryRows[k][COL_TYPE] = Str(t)}

\* C9: the summary has exactly one row for each of the six recognized
\* categories that occurs in the normalized sheet, holding the sums of
\* consumption and cost over that category's rows; a recognized category
\* without rows is absent and no row exists for any other category.
C9_SheetSummary ==
    Summarized =>
        /\ \A t \in Range(TARGET_TYPES) :
             /\ Cardinality(SummaryRowsOfType(t)) = IF RowsOfType(t) = {} THEN 0 ELSE 1
             /\ \A k \in SummaryRowsOfType(t) :
                  /\ SummaryRows[k][COL_USAGE] =
                       Num(SumOver(RowsOfType(t),
                                   [i \in DOMAIN CleanRows |-> CleanRows[i][COL_USAGE].n]))
                  /\ SummaryRows[k][COL_COST] =
                       Num(SumOver(RowsOfType(t),
                                   [i \in DOMAIN CleanRows |-> CleanRows[i][COL_COST].n]))
        /\ \A k \in DOMAIN SummaryRows : SummaryRows[k][COL_TYPE].s \in Range(TARGET_TYPES)

C9_Witness ==
    /\ Summarized
    /\ Cardinality(RowsOfType(<<"Dian">>)) = 2
    /\ \E i \in DOMAIN CleanRows : CleanRows[i][COL_TYPE] = Str(<<"QiTa">>)
    /\ Len(SummaryRows) = 1
    /\ SummaryRows[1][COL_COST] = Num(3)
    /\ SummaryRows[1][COL_USAGE] = Num(30)

-----------------------------------------------------------------------------
(* Claims about the run: cache policy, classification, failure containment *)

\* The cache path of the sheet last constructed
CurrentPath == GetCachePath(sheet_obj, CACHE_FORMAT)

\* A step that processed one sheet
SheetStep == nreads' = nreads + 1

\* C1: during a run no existing cache entry is overwritten or removed, and the
\* cache changes only in a step whose comparison result is NEW.
C1_CacheWrittenOnlyWhenNew ==
    [][pc = "loop" =>
         /\ \A p \in DOMAIN cache : p \in DOMAIN cache' /\ cache'[p] = cache[p]
         /\ cache' # cache => comparison_result' = "NEW"]_vars

C1_Witness ==
    /\ comparison_result = "MISMATCH"
    /\ CurrentPath \in DOMAIN cache
    /\ cache[CurrentPath].kind = "parquet"
    /\ cache[CurrentPath].table # sheet_obj.processed_df

RECURSIVE ExpectedSummaries(_)
ExpectedSummaries(log) ==
    IF log = <<>> THEN <<>>
    ELSE LET e == Head(log)
             sm == Constructed(e.file, e.sheet, e.content).summary_df
         IN (IF e.sheet = <<>> \/ sm.none THEN <<>> ELSE <<sm>>)
                \o ExpectedSummaries(Tail(log))

\* A workbook that did not open, a sheet that did not load or lacks a column
IsBadRead(e) ==
    e.sheet = <<>> \/ Constructed(e.file, e.sheet, e.content).summary_df.none

PivotPeriods == {pivot_df.rows[r][<<COL_PERIOD>>].s : r \in DOMAIN pivot_df.rows}

FailuresContained ==
    /\ summary_data = ExpectedSummaries(read_log)
    /\ \A k \in DOMAIN summary_data :
          summary_data[k].rows # <<>> =>
             summary_data[k].rows[1][COL_PERIOD].s \in PivotPeriods

\* C3: in a finished run with a bad sheet or a workbook that did not open, the
\* bad ones contribute nothing and the summary of every good sheet read is in
\* the aggregate input and its period in the Aggregate Table.
C3_FailuresContained ==
    (pc = "done" /\ \E k \in DOMAIN read_log : IsBadRead(read_log[k]))
        => FailuresContained

\* What holds of the code: the same, in the runs where no save_data raised.
C3_FailuresContainedWhenSaveReturns ==
    (/\ pc = "done"
     /\ \E k \in DOMAIN read_log : IsBadRead(read_log[k])
     /\ \A k \in DOMAIN read_log : read_log[k].save # "raised")
        => FailuresContained

\* C4: a step in which save_data failed (to_parquet raised, or os.makedirs
\* raised) still appends the sheet's summary and goes on to the next sheet of
\* the workbook.
C4_CacheWriteFailureContained ==
    [][(SheetStep /\ read_log'[Len(read_log')].save \in {"failed", "raised"}) =>
         /\ summary_data' = Append(summary_data, sheet_obj'.summary_df)
         /\ sheet_names' = Tail(sheet_names)]_vars

\* What holds of the code: a to_parquet failure is contained.
C4_ParquetFailureContained ==
    [][(SheetStep /\ read_log'[Len(read_log')].save = "failed") =>
         /\ summary_data' = Append(summary_data, sheet_obj'.summary_df)
         /\ sheet_names' = Tail(sheet_names)]_vars

\* C5: a sheet is compared only against a cache entry that save_data wrote for
\* that same (file, sheet): distinct sheets have distinct cache paths.
C5_CacheKeysInjective ==
    (comparison_result \in {"MATCH", "MISMATCH", "ERROR"} /\ ~ sheet_obj.processed_df.none)
        => cache_owner[CurrentPath] = <<sheet_obj.file_name, sheet_obj.sheet_name>>

-----------------------------------------------------------------------------
(* Claims about the Aggregate Table *)

Aggregated == pc = "done" /\ ~ pivot_df.none

LongRows == Concat(summary_data)

CostOf(period, type) ==
    SumOver({i \in DOMAIN LongRows :
               LongRows[i][COL_PERIOD].s = period /\ LongRows[i][COL_TYPE].s = type},
            [i \in DOMAIN LongRows |-> LongRows[i][COL_COST].n])

\* Every cost cell of the table is the sum over the summaries of the period and
\* type, and every type that has a summary row has its column.
CostCellsAreSums ==
    \A r \in DOMAIN pivot_df.rows :
        LET row == pivot_df.rows[r]
        IN \A t \in TargetTypeSet :
              /\ (\E i \in DOMAIN LongRows : LongRows[i][COL_TYPE].s = t)
                    => CostColumn(t) \in DOMAIN row
              /\ CostColumn(t) \in DOMAIN row
                    => row[CostColumn(t)] = Num(CostOf(row[<<COL_PERIOD>>].s, t))

OneRowPer(labels) ==
    /\ PivotPeriods = labels
    /\ Len(pivot_df.rows) = Cardinality(labels)

\* The period labels of the sheets whose summary was appended
SummarizedSheets ==
    {read_log[k].sheet : k \in {j \in DOMAIN read_log :
                                  ~ IsBadRead(read_log[j]) /\ read_log[j].save # "raised"}}

\* C10 as claimed: one row per distinct period label among the summarized
\* sheets, each cost cell the sum over the sheets of that label.
C10_OneRowPerSummarizedSheetLabel ==
    Aggregated => (OneRowPer(SummarizedSheets) /\ CostCellsAreSums)

\* C10 as amended: one row per distinct period label among the summary rows
\* (the summarized sheets that have a row of a recognized category), each cost
\* cell the sum over the sheets, of every workbook, of that label.
C10_OneRowPerSummaryRowLabel ==
    Aggregated =>
        (OneRowPer({LongRows[i][COL_PERIOD].s : i \in DOMAIN LongRows}) /\ CostCellsAreSums)

C10_Witness ==
    /\ Aggregated
    /\ Len(pivot_df.rows) = 2
    /\ pivot_df.rows[1][CostColumn(<<"Dian">>)] = Num(12)
    /\ Cardinality({read_log[k].file : k \in DOMAIN read_log}) = 2

\* C11: whenever an Aggregate Table is produced, each of the six recognized
\* categories has its cost column, and every period row holds a number in it
\* (0 where the period has no summary row of the category).
C11_AllSixCategoryColumns ==
    Aggregated =>
        \A t \in Range(TARGET_TYPES) :
            /\ CostColumn(t) \in Range(pivot_df.columns)
            /\ \A r \in DOMAIN pivot_df.rows :
                  LET row == pivot_df.rows[r]
                  IN /\ CostColumn(t) \in DOMAIN row
                     /\ row[CostColumn(t)].t = "int"
                     /\ CostOf(row[<<COL_PERIOD>>].s, t) = 0 => row[CostColumn(t)] = Num(0)

\* What holds of the code: the categories that have a summary row in some
\* period have their column, and in it a period without a row of the category
\* holds 0; a category without any summary row has no column.
C11_ContributingCategoryColumns ==
    Aggregated =>
        \A t \in Range(TARGET_TYPES) :
            /\ CostColumn(t) \in Range(pivot_df.columns)
                  <=> \E i \in DOMAIN LongRows : LongRows[i][COL_TYPE].s = t
            /\ CostColumn(t) \in Range(pivot_df.columns) =>
                  \A r \in DOMAIN pivot_df.rows :
                      LET row == pivot_df.rows[r]
                      IN /\ CostColumn(t) \in DOMAIN row
                         /\ row[CostColumn(t)].t = "int"
                         /\ (~ \E i \in DOMAIN LongRows :
                                 /\ LongRows[i][COL_PERIOD].s = row[<<COL_PERIOD>>].s
                                 /\ LongRows[i][COL_TYPE].s = t)
                               => row[CostColumn(t)] = Num(0)

\* The place of a column in the canonical order: the place of its category in
\* TARGET_TYPES, and after all of them for the cost column of another category
CanonicalRank(col) ==
    IF \E k \in DOMAIN TARGET_TYPES : col = CostColumn(TARGET_TYPES[k])
    THEN CHOOSE k \in DOMAIN TARGET_TYPES : col = CostColumn(TARGET_TYPES[k])
    ELSE Len(TARGET_TYPES) + 1

\* C12: the columns of the Aggregate Table are the period column, then the
\* cost columns of recognized categories in the order of TARGET_TYPES, then the
\* cost columns of other categories, then the grand-total column.
C12_ColumnOrder ==
    Aggregated =>
        LET cols == pivot_df.columns
            n == Len(cols)
        IN /\ n >= 2
           /\ cols[1] = <<COL_PERIOD>>
           /\ cols[n] = <<COL_TOTAL>>
           /\ \A i \in 2..(n - 1) : EndsWith(cols[i], <<"_", COL_COST>>)
           /\ \A i, j \in 2..(n - 1) :
                 i < j =>
                    /\ CanonicalRank(cols[i]) <= CanonicalRank(cols[j])
                    /\ CanonicalRank(cols[i]) <= Len(TARGET_TYPES)
                          => CanonicalRank(cols[i]) < CanonicalRank(cols[j])

\* A table whose columns pivot_table gave in another order (code point order
\* puts ZhongShui before Dian) than the canonical one
C12_Witness ==
    /\ Aggregated
    /\ pivot_df.columns =
          << <<COL_PERIOD>>, CostColumn(<<"Dian">>), CostColumn(<<"ZiLaiShui">>),
             CostColumn(<<"ZhongShui">>), <<COL_TOTAL>> >>
    /\ Len(pivot_df.rows) >= 1

\* C13: in every row of the Aggregate Table the grand total is the sum of the
\* cost columns of the row, the period column and the total itself left out.
C13_GrandTotal ==
    Aggregated =>
        \A r \in DOMAIN pivot_df.rows :
            LET row == pivot_df.rows[r]
                cats == DOMAIN row \ {<<COL_PERIOD>>, <<COL_TOTAL>>}
            IN row[<<COL_TOTAL>>] =
                  Num(SumOver(cats, [c \in cats |-> row[c].n]))

\* A row with three cost cells that differ, and another row
C13_Witness ==
    /\ Aggregated
    /\ Len(pivot_df.rows) = 2
    /\ \E r \in DOMAIN pivot_df.rows :
          /\ pivot_df.rows[r][CostColumn(<<"Dian">>)] = Num(9)
          /\ pivot_df.rows[r][CostColumn(<<"ZiLaiShui">>)] = Num(4)
          /\ pivot_df.rows[r][CostColumn(<<"ZhongShui">>)] = Num(2)
          /\ pivot_df.rows[r][<<COL_TOTAL>>] = Num(15)

-----------------------------------------------------------------------------
(* Claims about the order of enumeration (SpecOrder) *)

\* The summaries of the run, appended in another order
Reordered(q) == [k \in DOMAIN summary_data |-> summary_data[q[k]]]

\* The period column of a table, top to bottom
PeriodColumn(table) == [r \in DOMAIN table.rows |-> table.rows[r][<<COL_PERIOD>>]]

\* C14: the Aggregate Table of a run is the table that any other order of
\* enumerating the same workbooks and sheets gives: the same rows in the same
\* order, the same columns in the same order, the same value in every cell.
C14_OrderIndependent ==
    (Aggregated /\ LongRows # <<>>) =>
        \A q \in Permutations(DOMAIN summary_data) :
            Pivot(Concat(Reordered(q))) = pivot_df

\* What holds of the code: the rows and the columns and their order do not
\* depend on the order of enumeration, nor does a cell that sums at most two
\* summary rows.
C14_OrderIndependentLayout ==
    (Aggregated /\ LongRows # <<>>) =>
        \A q \in Permutations(DOMAIN summary_data) :
            LET other == Pivot(Concat(Reordered(q)))
            IN /\ other.columns = pivot_df.columns
               /\ PeriodColumn(other) = PeriodColumn(pivot_df)
               /\ \A r \in DOMAIN pivot_df.rows :
                     \A t \in TargetTypeSet :
                        (/\ CostColumn(t) \in DOMAIN pivot_df.rows[r]
                         /\ Cardinality({i \in DOMAIN LongRows :
                                /\ LongRows[i][COL_PERIOD] = pivot_df.rows[r][<<COL_PERIOD>>]
                                /\ LongRows[i][COL_TYPE].s = t}) <= 2)
                           => other.rows[r][CostColumn(t)] = pivot_df.rows[r][CostColumn(t)]

-----------------------------------------------------------------------------
(* Claims about the cache and the aggregate (Spec) *)

\* The summary computed from the sheet just read, the cache left aside
FreshSummary ==
    LET e == read_log'[Len(read_log')]
    IN Constructed(e.file, e.sheet, e.content).summary_df

\* C15: whatever the cache holds for a sheet (no entry, a matching, a
\* mismatching or a damaged entry), the step that processes the sheet appends
\* the summary of the table just normalized, and nothing in its place: the
\* input of the Aggregate Table depends on the workbooks only.
C15_SummaryIgnoresCache ==
    [][SheetStep =>
         summary_data' = IF FreshSummary.none THEN summary_data
                         ELSE Append(summary_data, FreshSummary)]_vars

\* What holds of the code: the same, in the steps where save_data returned.
C15_SummaryIgnoresCacheWhenSaveReturns ==
    [][(SheetStep /\ read_log'[Len(read_log')].save # "raised") =>
         /\ comparison_result' \in {"NEW", "MATCH", "MISMATCH", "ERROR"}
         /\ summary_data' = IF FreshSummary.none THEN summary_data
                            ELSE Append(summary_data, FreshSummary)]_vars

====
